---- MODULE Spec2Model ----
(***************************************************************************)
(* cudf::experimental::quantiles (cpp/src/quantiles/quantiles.cu).         *)
(*                                                                         *)
(* One call of quantiles() is modelled: the inputs are fixed by Init, each *)
(* iteration of the loop over the columns is one action, and the return    *)
(* (or the failure) ends the call.                                         *)
(*                                                                         *)
(* Numbers.  A quantile is the rational n/d, kept as the record [n, d].    *)
(* A double result x is kept as the integer x * Scale(quantile), where     *)
(* Scale = 2 * d: every value the code can produce (an element, a linear   *)
(* interpolation with weight k/d, a midpoint) is an integer in that scale. *)
(* Positions are 0-based as in the code; TLA+ sequences are 1-based, so    *)
(* position p of a column is data[p + 1].                                  *)
(*                                                                         *)
(* A null slot holds unspecified data: reading it yields any value of      *)
(* Garbage.  So does a read outside the column.                            *)
(***************************************************************************)
EXTENDS Integers, Sequences, FiniteSets, TLC

\* Bounds of the model.
MaxLen == 3
MaxVal == 2
QDen == 4
MaxCols == 2

VARIABLES
    table,          \* in: the columns of the table_view
    quantile,       \* the requested quantile, [n, d] for n/d
    interpolation,  \* the interpolation mode
    is_sorted,      \* the caller's is_sorted flag
    orders,         \* std::vector<order>
    null_orders,    \* std::vector<null_order>
    i,              \* the loop index of quantiles(), 0-based
    out,            \* the local vector out, NullPtr where not yet written
    pc,             \* "loop", "returned", "UnsupportedType" or "crashed"
    ret,            \* what the caller received: NoResult, or the vector
    drv,            \* per processed column: what the driver did (history)
    oob             \* an orders[i] / null_orders[i] read was out of range

vars == <<table, quantile, interpolation, is_sorted, orders, null_orders,
          i, out, pc, ret, drv, oob>>

----------------------------------------------------------------------------
\* Types of the interface.

Interpolations == {"LINEAR", "MIDPOINT", "LOWER", "HIGHER", "NEAREST"}
Orders == {"ASCENDING", "DESCENDING"}
NullOrders == {"AFTER", "BEFORE"}
TypeIds == {"INT32", "STRING"}

NullPtr == [null |-> TRUE]
NoResult == [none |-> TRUE]
NoIndex == [none |-> TRUE]

Values == 1..MaxVal
Garbage == 0..MaxVal

\* Every type taken for an arithmetic one.
IsArithmetic_Any(type) == type \in TypeIds

IsArithmetic(type) == type = "INT32"

Size(col) == Len(col.data)

NullCount(col) == Cardinality({k \in 1..Len(col.data) : ~col.valid[k]})

Nullable(col) == col.nullable

\* Only the empty column taken for an all-null one.
IsAllNull_EmptyOnly(col) == Size(col) = 0

IsAllNull(col) == Size(col) = NullCount(col)

\* numeric_scalar<double>(value, is_valid); a scalar constructed from a value
\* alone is valid.
numeric_scalar(value, is_valid) == [value |-> value, is_valid |-> is_valid]

DefaultIsValid == TRUE

Scale(q) == 2 * q.d

ToDouble(v, q) == v * Scale(q)

\* get_array_value: the element at a location; unspecified when the slot is
\* null or the location is outside the column.
GetArrayValue(col, location) ==
    IF location \in 0..(Size(col) - 1) /\ col.valid[location + 1]
    THEN {col.data[location + 1]}
    ELSE Garbage

----------------------------------------------------------------------------
\* quantile_index (lines 68-85).  val = n / d below.

\* The clamp without its upper end.
ClampQuantile_NoUpper(q) == IF q.n < 0 THEN 0 ELSE q.n

\* std::min(std::max(quantile, 0.0), 1.0): the numerator of the clamped
\* quantile over the same denominator.
ClampQuantile(q) ==
    LET lo == IF q.n < 0 THEN 0 ELSE q.n
    IN IF lo > q.d THEN q.d ELSE lo

Floor(n, d) == n \div d

Ceil(n, d) == IF n % d = 0 THEN n \div d ELSE (n \div d) + 1

\* std::nearbyint in the default rounding mode: to nearest, ties to even.
NearbyInt(n, d) ==
    LET f == n \div d
        r == n % d
    IN IF 2 * r < d THEN f
       ELSE IF 2 * r > d THEN f + 1
       ELSE IF f % 2 = 0 THEN f ELSE f + 1

\* fraction is kept as its numerator over q.d.
quantile_index(count, q) ==
    LET n == ClampQuantile(q) * (count - 1)
    IN [count       |-> count,
        lower_bound |-> Floor(n, q.d),
        upper_bound |-> Ceil(n, q.d),
        nearest     |-> NearbyInt(n, q.d),
        fraction    |-> n - Floor(n, q.d) * q.d]

----------------------------------------------------------------------------
\* interpolate::linear and interpolate::midpoint (quantiles_util.hpp), in
\* the scale of the result.

InterpolateLinear(a, b, fraction, q) == ToDouble(a, q) + 2 * fraction * (b - a)

InterpolateMidpoint(a, b, q) == (a + b) * q.d

\* thrust::make_counting_iterator<size_type>(0), used as the sort map.
SortMap(k) == k

\* select_quantile (lines 92-142) over the window that starts at position
\* offset of col.  The set of the outcomes it can produce.
select_quantile(col, offset, size, q, interp) ==
    IF size < 2
    THEN {[value |-> ToDouble(v, q), idx |-> NoIndex, reads |-> {offset}] :
             v \in GetArrayValue(col, offset)}
    ELSE LET idx == quantile_index(size, q)
             lo == offset + SortMap(idx.lower_bound)
             hi == offset + SortMap(idx.upper_bound)
             nr == offset + SortMap(idx.nearest)
         IN CASE interp = "LINEAR" ->
                   {[value |-> InterpolateLinear(a, b, idx.fraction, q),
                     idx |-> idx, reads |-> {lo, hi}] :
                       a \in GetArrayValue(col, lo), b \in GetArrayValue(col, hi)}
              [] interp = "MIDPOINT" ->
                   {[value |-> InterpolateMidpoint(a, b, q),
                     idx |-> idx, reads |-> {lo, hi}] :
                       a \in GetArrayValue(col, lo), b \in GetArrayValue(col, hi)}
              [] interp = "LOWER" ->
                   {[value |-> ToDouble(v, q), idx |-> idx, reads |-> {lo}] :
                       v \in GetArrayValue(col, lo)}
              [] interp = "HIGHER" ->
                   {[value |-> ToDouble(v, q), idx |-> idx, reads |-> {hi}] :
                       v \in GetArrayValue(col, hi)}
              [] interp = "NEAREST" ->
                   {[value |-> ToDouble(v, q), idx |-> idx, reads |-> {nr}] :
                       v \in GetArrayValue(col, nr)}

----------------------------------------------------------------------------
\* The ordering of the rows of one column.

\* row_lexicographic_comparator<nullable> over the one-column table: with
\* nullable, a null row is the smallest (nulls before) or the largest
\* (nulls after); valid rows compare by value in the column's direction.
RowLess(col, nullable, order, null_order, lhs, rhs) ==
    LET lnull == nullable /\ ~col.valid[lhs + 1]
        rnull == nullable /\ ~col.valid[rhs + 1]
    IN IF lnull /\ rnull THEN FALSE
       ELSE IF lnull THEN null_order = "BEFORE"
       ELSE IF rnull THEN null_order = "AFTER"
       ELSE IF order = "ASCENDING"
            THEN col.data[lhs + 1] < col.data[rhs + 1]
            ELSE col.data[lhs + 1] > col.data[rhs + 1]

\* thrust::min_element: the first position no other position is less than
\* (the end of the range, 0, when the range is empty).
MinElement(col, nullable, order, null_order) ==
    LET P == 0..(Size(col) - 1)
        IsMin(p) == \A o \in P : ~RowLess(col, nullable, order, null_order, o, p)
    IN IF P = {} THEN 0
       ELSE CHOOSE p \in P : IsMin(p) /\ \A e \in P : e < p => ~IsMin(e)

\* thrust::max_element: the first position that is less than no other.
MaxElement(col, nullable, order, null_order) ==
    LET P == 0..(Size(col) - 1)
        IsMax(p) == \A o \in P : ~RowLess(col, nullable, order, null_order, p, o)
    IN IF P = {} THEN 0
       ELSE CHOOSE p \in P : IsMax(p) /\ \A e \in P : e < p => ~IsMax(e)

\* extrema (lines 144-172).
extrema(col, minmax, nullable, order, null_order, q) ==
    LET extrema_id == IF minmax = "min"
                      THEN MinElement(col, nullable, order, null_order)
                      ELSE MaxElement(col, nullable, order, null_order)
    IN {[value |-> ToDouble(v, q), idx |-> NoIndex, reads |-> {extrema_id}] :
           v \in GetArrayValue(col, extrema_id)}

\* sorted_order: the stable sort permutation of the rows (insertion sort).
RECURSIVE InsertRow(_, _, _, _, _)
InsertRow(col, order, null_order, perm, p) ==
    IF perm = <<>> THEN <<p>>
    ELSE IF RowLess(col, TRUE, order, null_order, p, Head(perm))
         THEN <<p>> \o perm
         ELSE <<Head(perm)>> \o InsertRow(col, order, null_order, Tail(perm), p)

RECURSIVE SortRows(_, _, _, _)
SortRows(col, order, null_order, k) ==
    IF k = 0 THEN <<>>
    ELSE InsertRow(col, order, null_order,
                   SortRows(col, order, null_order, k - 1), k - 1)

sorted_order(col, order, null_order) == SortRows(col, order, null_order, Size(col))

\* gather: the rows of col in the order of the permutation.
gather(col, perm) ==
    [col EXCEPT !.data  = [k \in 1..Len(perm) |-> col.data[perm[k] + 1]],
                !.valid = [k \in 1..Len(perm) |-> col.valid[perm[k] + 1]]]

\* The start of the valid window of a sorted column (lines 214-216, 226-228).
DataBegin(col, null_order) ==
    IF null_order = "AFTER" THEN 0 ELSE NullCount(col)

----------------------------------------------------------------------------
\* trampoline (lines 174-236): the set of the outcomes of one column.

WithPath(outcomes, path, offset, count) ==
    {[value |-> o.value, idx |-> o.idx, reads |-> o.reads, path |-> path,
      window |-> [offset |-> offset, count |-> count]] : o \in outcomes}

trampoline(col, q, sorted, order, null_order, interp) ==
    IF Size(col) = 1
    THEN WithPath({[value |-> ToDouble(v, q), idx |-> NoIndex, reads |-> {0}] :
                      v \in GetArrayValue(col, 0)},
                  "SINGLE_ELEMENT", 0, 1)
    ELSE IF ~sorted
    THEN IF q.n <= 0
         THEN WithPath(extrema(col, "min", Nullable(col), order, null_order, q),
                       "BOUNDARY_MIN", 0, Size(col))
         ELSE IF q.n >= 0
         THEN WithPath(extrema(col, "max", Nullable(col), order, null_order, q),
                       "BOUNDARY_MAX", 0, Size(col))
         ELSE LET sorted_col == gather(col, sorted_order(col, order, null_order))
                  data_begin == DataBegin(sorted_col, null_order)
                  count == Size(col) - NullCount(col)
              IN WithPath(select_quantile(sorted_col, data_begin, count, q, interp),
                          "NEEDS_SORT", data_begin, count)
    ELSE LET data_begin == DataBegin(col, null_order)
             count == Size(col) - NullCount(col)
         IN WithPath(select_quantile(col, data_begin, count, q, interp),
                     "ALREADY_SORTED", data_begin, count)

----------------------------------------------------------------------------
\* The call: quantiles (lines 274-294).

NumColumns == Len(table)

\* A column_view: its type id, whether it has a null mask, its data and the
\* validity of each row.  A null row's data is written 0 here and never
\* read as such (GetArrayValue).
Slots == {[v |-> x, ok |-> TRUE] : x \in Values} \cup {[v |-> 0, ok |-> FALSE]}

MkColumn(type, nullable, slots) ==
    [type     |-> type,
     nullable |-> nullable,
     data     |-> [k \in 1..Len(slots) |-> slots[k].v],
     valid    |-> [k \in 1..Len(slots) |-> slots[k].ok]]

\* The columns of a given type and size: without a null mask every row is
\* valid, with one any row may be null.
ColumnsOf(type, len) ==
    {MkColumn(type, FALSE, [k \in 1..len |-> [v |-> d[k], ok |-> TRUE]]) :
        d \in [1..len -> Values]}
    \cup {MkColumn(type, TRUE, sl) : sl \in [1..len -> Slots]}

NullableColumnsOf(type, len) ==
    {MkColumn(type, TRUE, sl) : sl \in [1..len -> Slots]}

\* The column is sorted under (order, null_order): a caller that passes
\* is_sorted = true passes such columns.
IsSortedColumn(col, order, null_order) ==
    \A p \in 0..(Size(col) - 2) :
        ~RowLess(col, TRUE, order, null_order, p + 1, p)

Repeat(x, k) == [j \in 1..k |-> x]

ScenarioColumn == MkColumn("INT32", FALSE,
    [k \in 1..5 |-> [v |-> <<3, 1, 4, 1, 5>>[k], ok |-> TRUE]])

\* One numeric column of up to MaxLen rows, every quantile k/QDen from
\* below 0 to above 1, every mode, order and null placement.
InitDriver ==
    /\ \E len \in 0..MaxLen : \E col \in ColumnsOf("INT32", len) : table = <<col>>
    /\ \E n \in (-1)..(QDen + 1) : quantile = [n |-> n, d |-> QDen]
    /\ interpolation \in Interpolations
    /\ \E o \in Orders : orders = <<o>>
    /\ \E no \in NullOrders : null_orders = <<no>>
    /\ is_sorted \in BOOLEAN
    /\ is_sorted => IsSortedColumn(table[1], orders[1], null_orders[1])

\* Tables of up to MaxCols columns of 0 or 1 rows, of numeric and non-numeric
\* types, with order vectors of every length up to MaxCols.
InitTable ==
    /\ \E nc \in 0..MaxCols : \E rows \in 0..1 :
          /\ nc = 0 => rows = 0
          /\ table \in [1..nc -> UNION {NullableColumnsOf(t, rows) : t \in TypeIds}]
    /\ \E n \in {0, QDen} : quantile = [n |-> n, d |-> QDen]
    /\ interpolation = "LINEAR"
    /\ \E k \in 0..MaxCols : orders = Repeat("ASCENDING", k)
    /\ \E k \in 0..MaxCols : null_orders = Repeat("AFTER", k)
    /\ is_sorted \in BOOLEAN

\* The column [3,1,4,1,5] at quantiles 0.25, 0.5 and 0.6, in every mode,
\* order and null placement; with is_sorted the caller passes it sorted.
InitScenario ==
    /\ quantile \in {[n |-> 5, d |-> 20], [n |-> 10, d |-> 20], [n |-> 12, d |-> 20]}
    /\ interpolation \in Interpolations
    /\ \E o \in Orders : orders = <<o>>
    /\ \E no \in NullOrders : null_orders = <<no>>
    /\ is_sorted \in BOOLEAN
    /\ table = IF is_sorted
               THEN <<gather(ScenarioColumn,
                             sorted_order(ScenarioColumn, orders[1], null_orders[1]))>>
               ELSE <<ScenarioColumn>>

InitCall ==
    /\ i = 0
    /\ out = [k \in 1..Len(table) |-> NullPtr]
    /\ pc = "loop"
    /\ ret = NoResult
    /\ drv = <<>>
    /\ oob = FALSE

Init ==
    /\ InitDriver \/ InitTable \/ InitScenario
    /\ InitCall

InRange == i < Len(orders) /\ i < Len(null_orders)

\* orders[i] and null_orders[i]: past the end of the vector the read is
\* undefined and yields any value (or ends the process: OutOfRangeCrash).
ReadOrder == IF i < Len(orders) THEN {orders[i + 1]} ELSE Orders

ReadNullOrder == IF i < Len(null_orders) THEN {null_orders[i + 1]} ELSE NullOrders

\* Lines 285-286: a column with no valid row gets the invalid scalar 0.
ColumnAllNull ==
    /\ pc = "loop"
    /\ i < NumColumns
    /\ IsAllNull(table[i + 1])
    /\ out' = [out EXCEPT ![i + 1] = numeric_scalar(0, FALSE)]
    /\ drv' = Append(drv, [path |-> "ALL_NULL", idx |-> NoIndex, reads |-> {},
                           window |-> [offset |-> 0, count |-> 0],
                           order |-> "NONE", null_order |-> "NONE"])
    /\ i' = i + 1
    /\ UNCHANGED <<table, quantile, interpolation, is_sorted, orders,
                   null_orders, pc, ret, oob>>

\* Lines 288-289 and 255-269: an arithmetic column goes through trampoline.
ColumnQuantile ==
    /\ pc = "loop"
    /\ i < NumColumns
    /\ ~IsAllNull(table[i + 1])
    /\ IsArithmetic(table[i + 1].type)
    /\ \E o \in ReadOrder : \E no \in ReadNullOrder :
         \E r \in trampoline(table[i + 1], quantile, is_sorted, o, no, interpolation) :
            /\ out' = [out EXCEPT ![i + 1] = numeric_scalar(r.value, DefaultIsValid)]
            /\ drv' = Append(drv, [path |-> r.path, idx |-> r.idx, reads |-> r.reads,
                                   window |-> r.window,
                                   order |-> o, null_order |-> no])
    /\ oob' = (oob \/ ~InRange)
    /\ i' = i + 1
    /\ UNCHANGED <<table, quantile, interpolation, is_sorted, orders,
                   null_orders, pc, ret>>

\* Lines 288-289 and 240-253: any other type fails the call (CUDF_FAIL); the
\* exception unwinds quantiles and out is destroyed.
ColumnUnsupportedType ==
    /\ pc = "loop"
    /\ i < NumColumns
    /\ ~IsAllNull(table[i + 1])
    /\ ~IsArithmetic(table[i + 1].type)
    /\ oob' = (oob \/ ~InRange)
    /\ pc' = "UnsupportedType"
    /\ UNCHANGED <<table, quantile, interpolation, is_sorted, orders,
                   null_orders, i, out, ret, drv>>

\* Line 289: the read of orders[i] or null_orders[i] past the end of the
\* vector may also end the process.
OutOfRangeCrash ==
    /\ pc = "loop"
    /\ i < NumColumns
    /\ ~IsAllNull(table[i + 1])
    /\ ~InRange
    /\ oob' = TRUE
    /\ pc' = "crashed"
    /\ UNCHANGED <<table, quantile, interpolation, is_sorted, orders,
                   null_orders, i, out, ret, drv>>

\* Line 293.
Return ==
    /\ pc = "loop"
    /\ i = NumColumns
    /\ ret' = out
    /\ pc' = "returned"
    /\ UNCHANGED <<table, quantile, interpolation, is_sorted, orders,
                   null_orders, i, out, drv, oob>>

Next ==
    \/ ColumnAllNull
    \/ ColumnQuantile
    \/ ColumnUnsupportedType
    \/ OutOfRangeCrash
    \/ Return

Spec == Init /\ [][Next]_vars

\* The calls on the column [3,1,4,1,5] alone: one numeric column with a
\* valid element and order vectors of length 1, so that only these two
\* steps of Next are ever enabled.
NextScenario ==
    \/ ColumnQuantile
    \/ Return

InitScenarioCall ==
    /\ InitScenario
    /\ InitCall

SpecScenario == InitScenarioCall /\ [][NextScenario]_vars

----------------------------------------------------------------------------
\* What the claims speak of, stated without the driver.

ValidRows(col) == {k \in 1..Len(col.data) : col.valid[k]}

ValidElements(col) == {col.data[k] : k \in ValidRows(col)}

ValidCount(col) == Cardinality(ValidRows(col))

Before(order, x, y) == IF order = "ASCENDING" THEN x < y ELSE x > y

\* The element at position k (0-based) of the valid window of the column
\* sorted in the direction of order.
KthValid(col, order, k) ==
    CHOOSE v \in ValidElements(col) :
        /\ Cardinality({r \in ValidRows(col) : Before(order, col.data[r], v)}) <= k
        /\ k < Cardinality({r \in ValidRows(col) : ~Before(order, v, col.data[r])})

\* The interpolation, under the mode, of the elements at lower_bound,
\* upper_bound and nearest of the sorted valid window.
ExpectedQuantile(col, order, q, interp) ==
    LET count == ValidCount(col)
        x == quantile_index(count, q)
        a == KthValid(col, order, x.lower_bound)
        b == KthValid(col, order, x.upper_bound)
    IN IF count = 1 THEN ToDouble(KthValid(col, order, 0), q)
       ELSE CASE interp = "LINEAR"   -> InterpolateLinear(a, b, x.fraction, q)
              [] interp = "MIDPOINT" -> InterpolateMidpoint(a, b, q)
              [] interp = "LOWER"    -> ToDouble(a, q)
              [] interp = "HIGHER"   -> ToDouble(b, q)
              [] interp = "NEAREST"  -> ToDouble(KthValid(col, order, x.nearest), q)

\* Column j (1-based) went through the driver, with the order and the null
\* placement the caller configured for it.
Driven(j) ==
    /\ j \in 1..Len(drv)
    /\ drv[j].path # "ALL_NULL"
    /\ j <= Len(orders)
    /\ j <= Len(null_orders)

Mismatched == Len(orders) # NumColumns \/ Len(null_orders) # NumColumns

\* The columns of a non-numeric element type.
NonNumericColumns == {j \in 1..NumColumns : table[j].type = "STRING"}

----------------------------------------------------------------------------
\* C1: an unsorted column of size >= 2 with a valid element and a quantile
\* strictly between 0 and 1 takes the NEEDS_SORT path, and its result is the
\* interpolation over the sorted valid window (3.0 and 3.4 for [3,1,4,1,5]
\* at 0.5 and 0.6, LINEAR).
C1_InteriorQuantileSorts ==
    \A j \in 1..Len(drv) :
        (/\ Driven(j)
         /\ ~is_sorted
         /\ Size(table[j]) >= 2
         /\ 0 < quantile.n
         /\ quantile.n < quantile.d)
        => /\ drv[j].path = "NEEDS_SORT"
           /\ out[j].value =
                 ExpectedQuantile(table[j], orders[j], quantile, interpolation)

\* C2: for quantile = 1 and is_sorted false, the result is the maximum: the
\* element at position valid_count - 1 of the sorted valid window.
C2_QuantileOneIsMaximum ==
    \A j \in 1..Len(drv) :
        (Driven(j) /\ ~is_sorted /\ quantile.n = quantile.d)
        => out[j].value =
              ToDouble(KthValid(table[j], orders[j], ValidCount(table[j]) - 1),
                       quantile)

\* C3: for quantile = 0 and is_sorted false, the result is the minimum: the
\* element at position 0 of the sorted valid window.
C3_QuantileZeroIsMinimum ==
    \A j \in 1..Len(drv) :
        (Driven(j) /\ ~is_sorted /\ quantile.n = 0)
        => out[j].value = ToDouble(KthValid(table[j], orders[j], 0), quantile)

\* C4: a call with is_sorted = false returns what the call with
\* is_sorted = true returns on the same data sorted.
C4_CallPathsAgree ==
    \A j \in 1..Len(drv) :
        (Driven(j) /\ ~is_sorted)
        => LET sorted_col == gather(table[j],
                                    sorted_order(table[j], orders[j], null_orders[j]))
           IN out[j] \in
                 {[value |-> r.value, is_valid |-> TRUE] :
                     r \in trampoline(sorted_col, quantile, TRUE, orders[j],
                                      null_orders[j], interpolation)}

\* C5: in the returned sequence an entry is invalid exactly when every
\* element of its column is null (a column of size 0 included), and then
\* its value is 0.0.
C5_InvalidIffAllNull ==
    pc = "returned" =>
        /\ Len(ret) = NumColumns
        /\ \A j \in 1..NumColumns :
              /\ ret[j].is_valid = (ValidRows(table[j]) # {})
              /\ ~ret[j].is_valid => ret[j].value = 0

C5_Witness ==
    /\ pc = "returned"
    /\ \E j \in 1..NumColumns : Size(table[j]) >= 1 /\ ~ret[j].is_valid
    /\ \E j \in 1..NumColumns : ret[j].is_valid

\* C6: with orders or null_orders of a length other than the column count
\* the call fails fast: no result, and no read outside the vectors.
C6_MismatchFailsFast ==
    Mismatched => (pc # "returned" /\ ~oob)

\* C7, as claimed: a table with a non-numeric column never yields a result,
\* whatever that column holds.
C7_AnyNonNumericFails ==
    NonNumericColumns # {} => pc # "returned"

\* C7, amended: a table with a non-numeric column that has a valid element
\* never yields a result; the loop stops at the first such column, with
\* UnsupportedType unless an out-of-range read of the order vectors ended
\* the process.
BadColumns ==
    {j \in NonNumericColumns : ValidRows(table[j]) # {}}

C7_ValidNonNumericFails ==
    BadColumns # {} =>
        /\ ret = NoResult
        /\ pc \in {"loop", "UnsupportedType", "crashed"}
        /\ \A j \in BadColumns : i < j
        /\ pc = "crashed" => oob

C7_Witness ==
    /\ pc = "UnsupportedType"
    /\ ~oob
    /\ i >= 1
    /\ out[1] # NullPtr
    /\ ret = NoResult

\* C8: a column with exactly one valid element yields that element, and no
\* quantile_index is computed.
C8_SingleValidElement ==
    \A j \in 1..Len(drv) :
        (Driven(j) /\ ValidCount(table[j]) = 1)
        => /\ \A v \in ValidElements(table[j]) :
                 out[j].value = ToDouble(v, quantile)
           /\ drv[j].idx = NoIndex

\* C9: under LOWER, HIGHER and NEAREST the result is one of the column's
\* valid elements.
C9_ResultIsAnElement ==
    \A j \in 1..Len(drv) :
        (Driven(j) /\ interpolation \in {"LOWER", "HIGHER", "NEAREST"})
        => out[j].value \in {ToDouble(v, quantile) : v \in ValidElements(table[j])}

\* C10: a quantile_index of count >= 1 and any quantile has
\* 0 <= lower_bound <= upper_bound < count and 0 <= fraction < 1, and the
\* positions the driver reads through it are rows of the valid window.
IndexInRange(x, q) ==
    /\ 0 <= x.lower_bound
    /\ x.lower_bound <= x.upper_bound
    /\ x.upper_bound < x.count
    /\ x.nearest \in x.lower_bound..x.upper_bound
    /\ 0 <= x.fraction
    /\ x.fraction < q.d

C10_IndexInsideWindow ==
    /\ \A count \in 1..(MaxLen + 1) :
          IndexInRange(quantile_index(count, quantile), quantile)
    /\ \A j \in 1..Len(drv) :
          drv[j].idx # NoIndex =>
             LET x == drv[j].idx
                 w == drv[j].window
             IN /\ x.count = w.count
                /\ IndexInRange(x, quantile)
                /\ drv[j].reads # {}
                /\ drv[j].reads \subseteq
                      {w.offset + x.lower_bound, w.offset + x.upper_bound,
                       w.offset + x.nearest}
                /\ \A p \in drv[j].reads :
                      /\ w.offset <= p
                      /\ p < w.offset + w.count
                      /\ p < Size(table[j])
                      /\ table[j].valid[p + 1]

C10_Witness ==
    \E j \in 1..Len(drv) :
        /\ drv[j].idx # NoIndex
        /\ quantile.n > quantile.d
        /\ drv[j].window.offset > 0
        /\ drv[j].idx.upper_bound = drv[j].window.count - 1
        /\ drv[j].window.offset + drv[j].idx.upper_bound \in drv[j].reads

====
